---- MODULE Spec2Model ----
(***************************************************************************)
(* Model of .github/scripts/validate_geofeed.py: a single pass over the    *)
(* files named on the command line, each read as CSV rows, each row run    *)
(* through a fixed sequence of checks that print diagnostics and set the   *)
(* module-level flag validation_failed, which decides the exit status.     *)
(*                                                                         *)
(* Strings are TLA+ strings; fields are examined character by character,   *)
(* as str.strip, re.match and ipaddress.ip_network examine them.           *)
(***************************************************************************)
EXTENDS Integers, Sequences, FiniteSets, TLC

VARIABLES files, pc, fidx, yielded, validation_failed, out, exitcode

vars == <<files, pc, fidx, yielded, validation_failed, out, exitcode>>

(***************************************************************************)
(* Bounds of the model.                                                    *)
(***************************************************************************)
\* most paths on the command line
MaxFiles == 2
\* most CSV rows over all files of one run
MaxRows == 2

(***************************************************************************)
(* Characters and strings.                                                 *)
(***************************************************************************)
Ch(s, k) == SubSeq(s, k, k)

Chars(s) == {Ch(s, k) : k \in 1..Len(s)}

Upper == Chars("ABCDEFGHIJKLMNOPQRSTUVWXYZ")
Lower == Chars("abcdefghijklmnopqrstuvwxyz")
Digits == Chars("0123456789")
HexDigits == Chars("0123456789abcdefABCDEF")
\* the characters str.strip() removes, among those that occur in the inputs
Whitespace == {" ", "\t", "\n", "\r"}

AllIn(s, S) == \A k \in 1..Len(s) : Ch(s, k) \in S

RECURSIVE lstrip(_)
lstrip(s) ==
    IF Len(s) > 0 /\ Ch(s, 1) \in Whitespace THEN lstrip(SubSeq(s, 2, Len(s))) ELSE s

RECURSIVE rstrip(_)
rstrip(s) ==
    IF Len(s) > 0 /\ Ch(s, Len(s)) \in Whitespace
    THEN rstrip(SubSeq(s, 1, Len(s) - 1)) ELSE s

\* str.strip()
strip(s) == rstrip(lstrip(s))

\* str.startswith(p)
startswith(s, p) == Len(s) >= Len(p) /\ SubSeq(s, 1, Len(p)) = p

\* position of the first occurrence of character c in s, 0 when there is none
RECURSIVE FindFrom(_, _, _)
FindFrom(s, c, k) ==
    IF k > Len(s) THEN 0
    ELSE IF Ch(s, k) = c THEN k ELSE FindFrom(s, c, k + 1)

\* str.split(c): the pieces of s between the occurrences of c
RECURSIVE split(_, _)
split(s, c) ==
    LET k == FindFrom(s, c, 1) IN
    IF k = 0 THEN <<s>>
    ELSE <<SubSeq(s, 1, k - 1)>> \o split(SubSeq(s, k + 1, Len(s)), c)

\* int(s) for a string of decimal digits
RECURSIVE DecValue(_)
DecValue(s) ==
    IF Len(s) = 0 THEN 0
    ELSE 10 * DecValue(SubSeq(s, 1, Len(s) - 1))
         + (CHOOSE d \in 0..9 : Ch("0123456789", d + 1) = Ch(s, Len(s)))

HexDigitValue(c) ==
    IF c \in Digits THEN CHOOSE d \in 0..9 : Ch("0123456789", d + 1) = c
    ELSE IF c \in Lower THEN 10 + (CHOOSE d \in 0..5 : Ch("abcdef", d + 1) = c)
    ELSE 10 + (CHOOSE d \in 0..5 : Ch("ABCDEF", d + 1) = c)

\* int(s, 16) for a string of hexadecimal digits
RECURSIVE HexValue(_)
HexValue(s) ==
    IF Len(s) = 0 THEN 0
    ELSE 16 * HexValue(SubSeq(s, 1, Len(s) - 1)) + HexDigitValue(Ch(s, Len(s)))

RECURSIVE Pow2(_)
Pow2(n) == IF n = 0 THEN 1 ELSE 2 * Pow2(n - 1)

Clamp(x, lo, hi) == IF x < lo THEN lo ELSE IF x > hi THEN hi ELSE x

(***************************************************************************)
(* The regular expressions (lines 9 and 11).  re.match anchors at the      *)
(* start; "$" matches at the end of the string and also just before one    *)
(* final newline.                                                          *)
(***************************************************************************)
DropFinalNewline(s) ==
    IF Len(s) > 0 /\ Ch(s, Len(s)) = "\n" THEN SubSeq(s, 1, Len(s) - 1) ELSE s

\* ^[A-Z]{2}$
CountryBody(s) == Len(s) = 2 /\ AllIn(s, Upper)

COUNTRY_CODE_REGEX(s) == CountryBody(s) \/ CountryBody(DropFinalNewline(s))

\* ^[A-Z]{2}-[A-Za-z0-9]{1,3}$
RegionBody(s) ==
    /\ Len(s) \in 4..6
    /\ AllIn(SubSeq(s, 1, 2), Upper)
    /\ Ch(s, 3) = "-"
    /\ AllIn(SubSeq(s, 4, Len(s)), Upper \cup Lower \cup Digits)

REGION_CODE_REGEX(s) == RegionBody(s) \/ RegionBody(DropFinalNewline(s))

(***************************************************************************)
(* ipaddress.ip_network(address) with strict=True (line 55), for the text  *)
(* forms "<address>" and "<address>/<prefix length>".  Three forms the     *)
(* library also reads are outside the inputs drawn below and are not       *)
(* modelled: a dotted netmask or hostmask after the slash, a dotted quad   *)
(* as the tail of an IPv6 address, and an IPv6 scope id ("%...").          *)
(* A network is [valid, version, addr, prefixlen], addr being the address  *)
(* as 4 octets or as 8 sixteen-bit groups.                                 *)
(***************************************************************************)
NoNetwork == [valid |-> FALSE, version |-> 0, addr |-> <<>>, prefixlen |-> 0]

\* IPv4Address._parse_octet
V4OctetOk(o) ==
    /\ Len(o) \in 1..3
    /\ AllIn(o, Digits)
    /\ ~(o /= "0" /\ Ch(o, 1) = "0")
    /\ DecValue(o) <= 255

\* IPv4Address._ip_int_from_string
V4AddressOk(a) ==
    /\ a /= ""
    /\ LET octets == split(a, ".") IN
       /\ Len(octets) = 4
       /\ \A k \in 1..4 : V4OctetOk(octets[k])

V4Address(a) == LET octets == split(a, ".") IN [k \in 1..4 |-> DecValue(octets[k])]

\* _prefix_from_prefix_string: ASCII digits only, 0 <= value <= width
PrefixOk(p, width) == Len(p) > 0 /\ AllIn(p, Digits) /\ DecValue(p) <= width

\* IPv6Address._parse_hextet
HextetOk(h) == Len(h) \in 1..4 /\ AllIn(h, HexDigits)

\* The positions of an empty part strictly between the two ends: each is a "::".
SkipIndexes(parts) == {k \in 2..(Len(parts) - 1) : parts[k] = ""}

\* IPv6Address._ip_int_from_string: the layout [hi, lo, skipped] of the parts, or
\* [ok |-> FALSE] when the colons are misplaced.
V6Layout(parts) ==
    LET n == Len(parts)
        skips == SkipIndexes(parts)
        bad == [ok |-> FALSE, hi |-> 0, lo |-> 0, skipped |-> 0]
    IN
    IF n < 3 \/ n > 9 \/ Cardinality(skips) > 1 THEN bad
    ELSE IF skips /= {} THEN
        LET skip_index == CHOOSE k \in skips : TRUE
            hi0 == skip_index - 1
            lo0 == n - skip_index
            hi == IF parts[1] = "" THEN hi0 - 1 ELSE hi0
            lo == IF parts[n] = "" THEN lo0 - 1 ELSE lo0
        IN
        IF parts[1] = "" /\ hi /= 0 THEN bad
        ELSE IF parts[n] = "" /\ lo /= 0 THEN bad
        ELSE IF 8 - (hi + lo) < 1 THEN bad
        ELSE [ok |-> TRUE, hi |-> hi, lo |-> lo, skipped |-> 8 - (hi + lo)]
    ELSE
        IF n /= 8 \/ parts[1] = "" \/ parts[n] = "" THEN bad
        ELSE [ok |-> TRUE, hi |-> n, lo |-> 0, skipped |-> 0]

V6AddressOk(a) ==
    /\ a /= ""
    /\ LET parts == split(a, ":")
           lay == V6Layout(parts)
       IN
       /\ lay.ok
       /\ \A k \in 1..lay.hi : HextetOk(parts[k])
       /\ \A k \in (Len(parts) - lay.lo + 1)..Len(parts) : HextetOk(parts[k])

V6Address(a) ==
    LET parts == split(a, ":")
        lay == V6Layout(parts)
    IN
    [k \in 1..8 |->
        IF k <= lay.hi THEN HexValue(parts[k])
        ELSE IF k <= lay.hi + lay.skipped THEN 0
        ELSE HexValue(parts[Len(parts) - 8 + k])]

\* the bits of unit k (1-based, `bits` wide) that a prefix of length p leaves to hosts
HostSpan(k, p, bits) == Pow2(bits - Clamp(p - bits * (k - 1), 0, bits))

\* "has host bits set": packed & netmask /= packed
HostBitsSet(addr, p, bits) ==
    \E k \in 1..Len(addr) : addr[k] % HostSpan(k, p, bits) /= 0

\* IPv4Network(address, strict=True); "raises" tells AddressValueError and
\* NetmaskValueError, after which ip_network tries IPv6, from "has host bits
\* set", a plain ValueError that ip_network lets through.
IPv4Network(address) ==
    LET halves == split(address, "/") IN
    IF Len(halves) > 2 \/ ~V4AddressOk(halves[1]) THEN [raises |-> "AddressValueError", net |-> NoNetwork]
    ELSE IF Len(halves) = 2 /\ ~PrefixOk(halves[2], 32) THEN [raises |-> "NetmaskValueError", net |-> NoNetwork]
    ELSE
        LET addr == V4Address(halves[1])
            p == IF Len(halves) = 2 THEN DecValue(halves[2]) ELSE 32
        IN
        IF HostBitsSet(addr, p, 8) THEN [raises |-> "ValueError", net |-> NoNetwork]
        ELSE [raises |-> "", net |-> [valid |-> TRUE, version |-> 4, addr |-> addr, prefixlen |-> p]]

IPv6Network(address) ==
    LET halves == split(address, "/") IN
    IF Len(halves) > 2 \/ ~V6AddressOk(halves[1]) THEN [raises |-> "AddressValueError", net |-> NoNetwork]
    ELSE IF Len(halves) = 2 /\ ~PrefixOk(halves[2], 128) THEN [raises |-> "NetmaskValueError", net |-> NoNetwork]
    ELSE
        LET addr == V6Address(halves[1])
            p == IF Len(halves) = 2 THEN DecValue(halves[2]) ELSE 128
        IN
        IF HostBitsSet(addr, p, 16) THEN [raises |-> "ValueError", net |-> NoNetwork]
        ELSE [raises |-> "", net |-> [valid |-> TRUE, version |-> 6, addr |-> addr, prefixlen |-> p]]

\* ipaddress.ip_network: the network, or NoNetwork where it raises ValueError
ip_network(address) ==
    LET v4 == IPv4Network(address) IN
    IF v4.raises \in {"", "ValueError"} THEN v4.net
    ELSE IPv6Network(address).net

\* tuple comparison, most significant unit first
RECURSIVE LexLeq(_, _)
LexLeq(a, b) ==
    IF Len(a) = 0 THEN TRUE
    ELSE IF a[1] /= b[1] THEN a[1] < b[1]
    ELSE LexLeq(Tail(a), Tail(b))

UnitBits(net) == IF net.version = 4 THEN 8 ELSE 16

\* network.broadcast_address
Broadcast(net) ==
    [k \in 1..Len(net.addr) |->
        net.addr[k] + HostSpan(k, net.prefixlen, UnitBits(net)) - 1]

\* a.subnet_of(b) raises TypeError when the versions differ
SubnetRaises(a, b) == a.version /= b.version

\* a.subnet_of(b), for networks of one version
subnet_of(a, b) == LexLeq(b.addr, a.addr) /\ LexLeq(Broadcast(a), Broadcast(b))

(***************************************************************************)
(* Output.  One record per printed line: level, the position of the path   *)
(* in files_to_check, the line number, which message it is, and the values *)
(* the message interpolates (a string and a count).                        *)
(***************************************************************************)
Line(level, path, linenum, msg, arg, n) ==
    [level |-> level, path |-> path, linenum |-> linenum, msg |-> msg, arg |-> arg, n |-> n]

\* line 24
Header(path) == Line("HEAD", path, 0, "validating", "", 0)
\* line 92
NotFound(path) == Line("INFO", path, 0, "not_found", "", 0)
\* line 94; e names the exception
Fatal(path, e) == Line("FATAL", path, 0, "could_not_process", e, 0)

(***************************************************************************)
(* Inputs.  A file is [kind, rows]: "missing" (open raises                 *)
(* FileNotFoundError), "denied" (open raises another exception), "ok"      *)
(* (csv.reader yields rows and ends), "badread" (csv.reader yields rows    *)
(* and then raises, as on undecodable bytes or a csv.Error).  A row is the *)
(* list of fields csv.reader yields for one record.                        *)
(***************************************************************************)
Kinds == {"missing", "denied", "ok", "badread"}

Valid == "2a0f:1cc0::/32"
Outside == "2a0f:1cc8::/32"
City64 == "Llanfairpwllgwyngyllgogerychwyrndrobwllllantysiliogogogoch-Wales"
City65 == City64 \o "s"

\* rows of every outcome, for the runs over several files
RunRows ==
    { <<"# prefix,country,region,city">>,
      <<Valid>>,
      <<"bogus", "US">>,
      <<"10.0.0.0/8", "US">>,
      <<Valid, "US">>,
      <<Valid, "us">>,
      <<Valid, "US", "", "Los Angeles">> }

\* rows that are skipped, or have too few or too many fields
ShapeRows ==
    { <<>>,
      <<"  # note", "a", "b", "c", "d", "e">>,
      <<"x#">>,
      <<"">>,
      <<Valid, "">>,
      <<Valid, "US", "US-CA", "Tokyo", "x">>,
      <<Valid, "US", "US-CA", "Tokyo", "">>,
      <<Valid, "US", "US-CA", "Tokyo", "", "">>,
      <<Valid, "US", "US-CA", "Tokyo", " ">>,
      <<"bogus", "us", "us-ca", "Tokyo", "x", "y">> }

\* rows told apart by their prefix
PrefixRows ==
    { <<"bogus", "us", "us-ca">>,
      <<"", "US">>,
      <<"2a0f:1cc0::1/32", "US">>,
      <<"2a0f:1cc0::/129", "usa", "US-CALI", City65>>,
      <<" 2a0f:1cc0::/32 ", "US">>,
      <<"2A0F:1CC7:ffff::/48", "JP", "JP-13", "Tokyo">>,
      <<"2a0f:1cc0::/29", "US">>,
      <<"2a0f:1cc0::/28", "US">>,
      <<Outside, "US">>,
      <<Outside, "us", "us-ca", "Tokyo">>,
      <<"2001:db8::/32", "US", "", City65>>,
      <<"192.168.1.0/24", "us", "us-ca">>,
      <<"192.168.1.1/24", "US">> }

\* rows told apart by their country, region and city
FieldRows ==
    { <<Valid, " US ">>,
      <<Valid, "U">>,
      <<Valid, " ">>,
      <<Valid, "USA", "US-CA">>,
      <<Valid, "US", " ">>,
      <<Valid, "US", "us-ca">>,
      <<Valid, "US", " JP-13 ">>,
      <<Valid, "US", "US-CALI">>,
      <<Valid, "US", "US-">>,
      <<Valid, "US", "USCA">>,
      <<Valid, "US", "US-C", "Tokyo">>,
      <<Valid, "US", "us-ca", "">>,
      <<Valid, "US", " ", "Tokyo">>,
      <<Valid, "US", "US-CA", " ">>,
      <<Valid, "US", "US-CA", City64>>,
      <<Valid, "US", "US-CA", City65>>,
      <<Valid, "US", "", " " \o City65>>,
      <<Valid, "us", "", City64>> }

AllRows == RunRows \cup ShapeRows \cup PrefixRows \cup FieldRows

\* a row with one empty field more, or one fewer: what a trailing delimiter adds
TrailingVariants(row) ==
    {Append(row, "")}
    \cup (IF Len(row) > 0 /\ row[Len(row)] = "" THEN {SubSeq(row, 1, Len(row) - 1)} ELSE {})

RECURSIVE SeqsUpTo(_, _)
SeqsUpTo(S, n) ==
    IF n = 0 THEN {<<>>}
    ELSE LET shorter == SeqsUpTo(S, n - 1) IN
         shorter \cup {Append(s, x) : s \in {t \in shorter : Len(t) = n - 1}, x \in S}

\* a row of AllRows followed by trailing-field variants of it
RECURSIVE VariantSeqs(_)
VariantSeqs(n) ==
    IF n = 0 THEN {<<>>}
    ELSE IF n = 1 THEN {<<>>} \cup {<<r>> : r \in AllRows}
    ELSE LET shorter == VariantSeqs(n - 1) IN
         shorter \cup UNION {{Append(s, v) : v \in TrailingVariants(s[1])} :
                                s \in {t \in shorter : Len(t) = n - 1}}


(***************************************************************************)
(* The checks of one row (lines 34-88).                                    *)
(***************************************************************************)
\* line 34: an empty row, or a first field that starts with '#' once trimmed
IsSkipped(row) == IF row = <<>> THEN TRUE ELSE startswith(strip(row[1]), "#")

\* the row as read, its trailing field kept
PopTrailingNever(row) == row

\* lines 40-41: row.pop() when the last field is exactly ''
PopTrailing(row) ==
    IF Len(row) > 0 /\ row[Len(row)] = "" THEN SubSeq(row, 1, Len(row) - 1) ELSE row

\* one field too many let through
ColumnCountOkUpToFive(row) == 2 <= Len(row) /\ Len(row) <= 5

\* line 45
ColumnCountOk(row) == 2 <= Len(row) /\ Len(row) <= 4

\* ip_network of every first field of the inputs, trimmed (lines 50 and 55),
\* worked out once
PrefixTexts == {""} \cup {row[1] : row \in AllRows \ {<<>>}}
Networks == [text \in PrefixTexts |-> ip_network(strip(text))]

\* lines 50 and 55
Network(row) == Networks[row[1]]

\* line 6
SUPERNET == ip_network("2a0f:1cc0::/29")

\* line 62
NotInSupernet(row) == ~subnet_of(Network(row), SUPERNET)

\* lines 51 and 67
BadCountry(row) == ~COUNTRY_CODE_REGEX(strip(row[2]))

\* the region is matched even when it is blank
BadRegionBlankToo(row) == Len(row) >= 3 /\ ~REGION_CODE_REGEX(strip(row[3]))

\* lines 73-75
BadRegion(row) ==
    /\ Len(row) >= 3 /\ strip(row[3]) /= ""
    /\ ~REGION_CODE_REGEX(strip(row[3]))

\* the city length above which line 83 warns
CityMax == 64

\* lines 81-83
LongCity(row) ==
    /\ Len(row) = 4 /\ strip(row[4]) /= ""
    /\ Len(strip(row[4])) > CityMax

\* line 87
CityWithoutRegion(row) ==
    /\ Len(row) = 4 /\ strip(row[4]) /= ""
    /\ (Len(row) < 3 \/ strip(row[3]) = "")

When(cond, line) == IF cond THEN <<line>> ELSE <<>>

\* lines 62-88: what a row prints once its prefix parsed and compared
CheckLines(row, path, linenum) ==
    When(NotInSupernet(row), Line("ERROR", path, linenum, "not_in_supernet", strip(row[1]), 0))
    \o When(BadCountry(row), Line("ERROR", path, linenum, "country", strip(row[2]), 0))
    \o When(BadRegion(row), Line("ERROR", path, linenum, "region", strip(row[3]), 0))
    \o When(LongCity(row), Line("WARN", path, linenum, "city_long", strip(row[4]), 0))
    \o When(CityWithoutRegion(row), Line("WARN", path, linenum, "city_no_region", row[4], 0))

\* the country check prints its error and forgets the flag
CheckSetsFlagNoCountry(row) == NotInSupernet(row) \/ BadRegion(row)

\* the city warnings set the flag too
CheckSetsFlagWithWarnings(row) ==
    NotInSupernet(row) \/ BadCountry(row) \/ BadRegion(row)
    \/ LongCity(row) \/ CityWithoutRegion(row)

\* lines 64, 69, 77: the checks of lines 62-88 that set validation_failed
CheckSetsFlag(row) == NotInSupernet(row) \/ BadCountry(row) \/ BadRegion(row)

TypeOK ==
    /\ pc \in {"args", "for", "rows", "done"}
    /\ fidx \in 1..(Len(files) + 1)
    /\ validation_failed \in BOOLEAN
    /\ exitcode \in {-1, 0, 1}

(***************************************************************************)
(* The program.                                                            *)
(***************************************************************************)
files_to_check == 1..Len(files)

\* every way to lay a row sequence of rowseqs out over at most MaxFiles files:
\* cut[f] is the position of the last row of file f
InitWith(rowseqs) ==
    /\ \E s \in rowseqs, n \in 0..MaxFiles :
         \E kind \in [1..n -> Kinds], cut \in [0..n -> 0..Len(s)] :
            /\ cut[0] = 0 /\ cut[n] = Len(s)
            /\ \A f \in 1..n :
                  /\ cut[f - 1] <= cut[f]
                  /\ cut[f - 1] < cut[f] => kind[f] \in {"ok", "badread"}
            /\ files = [f \in 1..n |->
                          [kind |-> kind[f], rows |-> SubSeq(s, cut[f - 1] + 1, cut[f])]]
    /\ pc = "args"
    /\ fidx = 1
    /\ yielded = [f \in files_to_check |-> 0]
    /\ validation_failed = FALSE
    /\ out = <<>>
    /\ exitcode = -1

Init == InitWith(SeqsUpTo(RunRows, MaxRows))

InitRows == InitWith(VariantSeqs(MaxRows))

\* lines 19-21
NoFiles ==
    /\ pc = "args" /\ files = <<>>
    /\ out' = Append(out, Line("NOTE", 0, 0, "no_files", "", 0))
    /\ exitcode' = 0
    /\ pc' = "done"
    /\ UNCHANGED <<files, fidx, yielded, validation_failed>>

\* line 19, files given: on to the loop of line 23
EnterLoop ==
    /\ pc = "args" /\ files /= <<>>
    /\ pc' = "for"
    /\ UNCHANGED <<files, fidx, yielded, validation_failed, out, exitcode>>

\* a missing file counted as a failure
FileMissingFails ==
    /\ pc = "for" /\ fidx \in files_to_check
    /\ files[fidx].kind = "missing"
    /\ out' = out \o <<Header(fidx), NotFound(fidx)>>
    /\ validation_failed' = TRUE
    /\ fidx' = fidx + 1
    /\ UNCHANGED <<files, pc, yielded, exitcode>>

\* lines 23-26 and 91-92: open raises FileNotFoundError
FileMissing ==
    /\ pc = "for" /\ fidx \in files_to_check
    /\ files[fidx].kind = "missing"
    /\ out' = out \o <<Header(fidx), NotFound(fidx)>>
    /\ fidx' = fidx + 1
    /\ UNCHANGED <<files, pc, yielded, validation_failed, exitcode>>

\* the exception handled outside the loop: the paths after it are dropped
FileOpenFailsAborts ==
    /\ pc = "for" /\ fidx \in files_to_check
    /\ files[fidx].kind = "denied"
    /\ out' = out \o <<Header(fidx), Fatal(fidx, "OSError")>>
    /\ validation_failed' = TRUE
    /\ fidx' = Len(files) + 1
    /\ UNCHANGED <<files, pc, yielded, exitcode>>

\* lines 23-26 and 93-95: open raises another exception
FileOpenFails ==
    /\ pc = "for" /\ fidx \in files_to_check
    /\ files[fidx].kind = "denied"
    /\ out' = out \o <<Header(fidx), Fatal(fidx, "OSError")>>
    /\ validation_failed' = TRUE
    /\ fidx' = fidx + 1
    /\ UNCHANGED <<files, pc, yielded, exitcode>>

\* lines 23-28: the file opens
FileOpens ==
    /\ pc = "for" /\ fidx \in files_to_check
    /\ files[fidx].kind \in {"ok", "badread"}
    /\ out' = Append(out, Header(fidx))
    /\ pc' = "rows"
    /\ UNCHANGED <<files, fidx, yielded, validation_failed, exitcode>>

\* line 30: the reader has another row
HasRow == pc = "rows" /\ yielded[fidx] < Len(files[fidx].rows)

\* the row line 30 yields next, and its line number (line 31)
NextRow == files[fidx].rows[yielded[fidx] + 1]
linenum == yielded[fidx] + 1

Yield == yielded' = [yielded EXCEPT ![fidx] = @ + 1]

\* lines 34-35
RowSkipped ==
    /\ HasRow /\ IsSkipped(NextRow)
    /\ Yield
    /\ UNCHANGED <<files, pc, fidx, validation_failed, out, exitcode>>

\* lines 45-48
RowColumnCount ==
    /\ HasRow /\ ~IsSkipped(NextRow)
    /\ LET row == PopTrailing(NextRow) IN
       /\ ~ColumnCountOk(row)
       /\ out' = Append(out, Line("ERROR", fidx, linenum, "column_count", "", Len(row)))
    /\ validation_failed' = TRUE
    /\ Yield
    /\ UNCHANGED <<files, pc, fidx, exitcode>>

\* the continue of line 59 left out: the country check still runs
RowInvalidPrefixGoesOn ==
    /\ HasRow /\ ~IsSkipped(NextRow)
    /\ LET row == PopTrailing(NextRow) IN
       /\ ColumnCountOk(row)
       /\ ~Network(row).valid
       /\ out' = Append(out, Line("ERROR", fidx, linenum, "invalid_prefix", strip(row[1]), 0))
                 \o When(BadCountry(row), Line("ERROR", fidx, linenum, "country", strip(row[2]), 0))
    /\ validation_failed' = TRUE
    /\ Yield
    /\ UNCHANGED <<files, pc, fidx, exitcode>>

\* lines 54-59
RowInvalidPrefix ==
    /\ HasRow /\ ~IsSkipped(NextRow)
    /\ LET row == PopTrailing(NextRow) IN
       /\ ColumnCountOk(row)
       /\ ~Network(row).valid
       /\ out' = Append(out, Line("ERROR", fidx, linenum, "invalid_prefix", strip(row[1]), 0))
    /\ validation_failed' = TRUE
    /\ Yield
    /\ UNCHANGED <<files, pc, fidx, exitcode>>

\* line 62 raises TypeError (the prefix is not of SUPERNET's version), which
\* leaves the loop and the with block and is caught at lines 93-95
RowSubnetRaises ==
    /\ HasRow /\ ~IsSkipped(NextRow)
    /\ LET row == PopTrailing(NextRow) IN
       /\ ColumnCountOk(row)
       /\ Network(row).valid
       /\ SubnetRaises(Network(row), SUPERNET)
    /\ out' = Append(out, Fatal(fidx, "TypeError"))
    /\ validation_failed' = TRUE
    /\ Yield
    /\ pc' = "for"
    /\ fidx' = fidx + 1
    /\ UNCHANGED <<files, exitcode>>

\* lines 62-88
RowChecked ==
    /\ HasRow /\ ~IsSkipped(NextRow)
    /\ LET row == PopTrailing(NextRow) IN
       /\ ColumnCountOk(row)
       /\ Network(row).valid
       /\ ~SubnetRaises(Network(row), SUPERNET)
       /\ out' = out \o CheckLines(row, fidx, linenum)
       /\ validation_failed' = (validation_failed \/ CheckSetsFlag(row))
    /\ Yield
    /\ UNCHANGED <<files, pc, fidx, exitcode>>

\* line 30 raises while reading on; caught at lines 93-95
ReadFails ==
    /\ pc = "rows" /\ ~HasRow
    /\ files[fidx].kind = "badread"
    /\ out' = Append(out, Fatal(fidx, "ReadError"))
    /\ validation_failed' = TRUE
    /\ pc' = "for"
    /\ fidx' = fidx + 1
    /\ UNCHANGED <<files, yielded, exitcode>>

\* line 30: the reader is exhausted
EndOfFile ==
    /\ pc = "rows" /\ ~HasRow
    /\ files[fidx].kind = "ok"
    /\ pc' = "for"
    /\ fidx' = fidx + 1
    /\ UNCHANGED <<files, yielded, validation_failed, out, exitcode>>

\* lines 98-103
Summary ==
    /\ pc = "for" /\ fidx > Len(files)
    /\ out' = Append(out, Line("NOTE", 0, 0, IF validation_failed THEN "failed" ELSE "success", "", 0))
    /\ exitcode' = (IF validation_failed THEN 1 ELSE 0)
    /\ pc' = "done"
    /\ UNCHANGED <<files, fidx, yielded, validation_failed>>

Next ==
    \/ NoFiles
    \/ EnterLoop
    \/ FileMissing
    \/ FileOpenFails
    \/ FileOpens
    \/ RowSkipped
    \/ RowColumnCount
    \/ RowInvalidPrefix
    \/ RowSubnetRaises
    \/ RowChecked
    \/ ReadFails
    \/ EndOfFile
    \/ Summary

\* runs over several files, rows of RunRows
Spec == Init /\ [][Next]_vars

\* runs whose rows are a row of AllRows and trailing-field variants of it
SpecRows == InitRows /\ [][Next]_vars

(***************************************************************************)
(* Vocabulary of the properties.                                           *)
(***************************************************************************)
Done == pc = "done"

ErrorLevel(line) == line.level \in {"ERROR", "FATAL"}

Printed == {out[k] : k \in 1..Len(out)}

ErrorPrinted == \E line \in Printed : ErrorLevel(line)

\* the rows the loop of line 30 has been handed so far
Reached == {<<f, l>> \in files_to_check \X (1..MaxRows) : l <= yielded[f]}

RowAt(f, l) == files[f].rows[l]

\* the row-level lines printed for row l of path f
RowOutput(f, l) == SelectSeq(out, LAMBDA line : line.path = f /\ line.linenum = l)

Has(f, l, msg) == \E k \in 1..Len(RowOutput(f, l)) : RowOutput(f, l)[k].msg = msg

\* the field count the column check sees: one trailing '' does not count
FieldCount(row) ==
    IF Len(row) > 0 /\ row[Len(row)] = "" THEN Len(row) - 1 ELSE Len(row)

\* the fields the checks see
Fields(row) == SubSeq(row, 1, FieldCount(row))

\* a row that is neither empty nor a comment and has 2 to 4 fields
Candidate(row) ==
    /\ row /= <<>>
    /\ ~startswith(strip(row[1]), "#")
    /\ FieldCount(row) \in 2..4

Blank(field) == strip(field) = ""

(***************************************************************************)
(* C1.  The run exits with status 1 exactly when an ERROR or FATAL line    *)
(* was printed, and with status 0 otherwise, the empty path list included; *)
(* all along, validation_failed is set exactly when such a line was        *)
(* printed.                                                                *)
(***************************************************************************)
C1_ExitStatus ==
    /\ validation_failed <=> ErrorPrinted
    /\ Done => exitcode = (IF ErrorPrinted THEN 1 ELSE 0)
    /\ (Done /\ files = <<>>) => exitcode = 0

C1_Witness ==
    /\ Done /\ exitcode = 1
    /\ \E line \in Printed : line.level = "ERROR"
    /\ \E line \in Printed : line.level = "FATAL"

(***************************************************************************)
(* C2.  Every row the loop reached that has 2 to 4 fields and a prefix     *)
(* that parses, as IPv4 or as IPv6, to a network that is not a subnet of   *)
(* SUPERNET, got the containment ERROR, and its country, region and city   *)
(* checks were carried out.  (Stated as claimed; the code violates it.)    *)
(***************************************************************************)
OutsideSupernet(net) ==
    IF net.version = SUPERNET.version THEN ~subnet_of(net, SUPERNET) ELSE TRUE

\* C2: a reached row whose prefix is a valid network of either family outside
\* SUPERNET has its containment ERROR and the lines of its later checks
C2_ContainmentForEveryFamily ==
    \A <<f, l>> \in Reached :
        LET row == Fields(RowAt(f, l))
            net == Network(row)
        IN
        (Candidate(RowAt(f, l)) /\ net.valid /\ OutsideSupernet(net)) =>
            /\ Has(f, l, "not_in_supernet")
            /\ ~COUNTRY_CODE_REGEX(strip(row[2])) => Has(f, l, "country")
            /\ (Len(row) >= 3 /\ ~Blank(row[3]) /\ ~REGION_CODE_REGEX(strip(row[3])))
                  => Has(f, l, "region")
            /\ (Len(row) = 4 /\ ~Blank(row[4]) /\ Blank(row[3])) => Has(f, l, "city_no_region")

(***************************************************************************)
(* C3.  Once the run is over, every row of every readable file has been    *)
(* handed to the checks, whatever the rows before it produced.  (Stated as *)
(* claimed; the code violates it.)                                         *)
(***************************************************************************)
C3_EveryRowValidated ==
    Done => \A f \in files_to_check :
                files[f].kind = "ok" => yielded[f] = Len(files[f].rows)

(***************************************************************************)
(* C4.  A nonexistent file prints its header and one INFO line and nothing *)
(* else, and the failure flag and the exit status are decided by the       *)
(* error-level lines of the other files alone; so a run over nonexistent   *)
(* files only exits with status 0.                                         *)
(***************************************************************************)
PathOutput(f) == SelectSeq(out, LAMBDA line : line.path = f)

ErrorFromExisting ==
    \E line \in Printed :
        ErrorLevel(line) /\ line.path \in files_to_check /\ files[line.path].kind /= "missing"

\* C4: a nonexistent file prints INFO only; flag and exit status follow the
\* error-level lines of the files that exist
C4_MissingFileIsNoFailure ==
    /\ \A f \in files_to_check :
          (files[f].kind = "missing" /\ f < fidx) =>
              PathOutput(f) = <<Header(f), NotFound(f)>>
    /\ validation_failed <=> ErrorFromExisting
    /\ Done => (exitcode = 1 <=> ErrorFromExisting)
    /\ (Done /\ \A f \in files_to_check : files[f].kind = "missing") => exitcode = 0

C4_Witness ==
    /\ Done /\ exitcode = 0
    /\ Len(files) >= 2
    /\ \A f \in files_to_check : files[f].kind = "missing"

(***************************************************************************)
(* C5.  A file that cannot be opened or read, for a reason other than not  *)
(* existing, gets a FATAL line and sets the failure flag; the run goes on: *)
(* right after the failure it has a next step to take, and at the summary  *)
(* every path of the argument list has had its header printed.             *)
(***************************************************************************)
C5_FatalFileDoesNotAbortRun ==
    /\ \A f \in files_to_check :
          (files[f].kind \in {"denied", "badread"} /\ f < fidx) =>
              /\ \E line \in Printed : line.level = "FATAL" /\ line.path = f
              /\ validation_failed
              /\ (pc = "for" /\ fidx = f + 1) => ENABLED Next
    /\ (Done /\ files /= <<>>) => \A f \in files_to_check : Header(f) \in Printed

C5_Witness ==
    /\ Done
    /\ Len(files) >= 2
    /\ files[1].kind = "denied"
    /\ files[2].kind = "ok" /\ yielded[2] >= 1

(***************************************************************************)
(* C6.  Warnings do not touch the failure flag: as long as no ERROR or     *)
(* FATAL line was printed the flag is clear, however many WARN lines were, *)
(* and such a run exits with status 0.  A WARN line is a city-length       *)
(* warning (field 4 non-blank and longer than 64 once trimmed) or a        *)
(* city-without-region warning (field 4 non-blank, field 3 blank).         *)
(***************************************************************************)
C6_WarningsNeverFail ==
    /\ \A line \in Printed :
          line.level = "WARN" =>
              LET row == Fields(RowAt(line.path, line.linenum)) IN
              /\ Len(row) = 4 /\ ~Blank(row[4])
              /\ line.msg \in {"city_long", "city_no_region"}
              /\ line.msg = "city_long" => Len(strip(row[4])) > 64
              /\ line.msg = "city_no_region" => Blank(row[3])
    /\ ~ErrorPrinted => ~validation_failed
    /\ (Done /\ ~ErrorPrinted) => exitcode = 0

C6_Witness ==
    /\ Done /\ exitcode = 0
    /\ \E line \in Printed : line.msg = "city_long"
    /\ \E line \in Printed : line.msg = "city_no_region"

(***************************************************************************)
(* C7.  A reached row with 2 to 4 fields whose trimmed field 1 does not    *)
(* parse as a network printed exactly one line, the IP-prefix ERROR, and   *)
(* set the failure flag; no containment, country, region or city line was  *)
(* printed for it, however malformed its other fields.                     *)
(***************************************************************************)
C7_InvalidPrefixShortCircuits ==
    \A <<f, l>> \in Reached :
        LET row == Fields(RowAt(f, l)) IN
        (Candidate(RowAt(f, l)) /\ ~Network(row).valid) =>
            /\ RowOutput(f, l) = <<Line("ERROR", f, l, "invalid_prefix", strip(row[1]), 0)>>
            /\ validation_failed

C7_Witness ==
    \E <<f, l>> \in Reached :
        /\ RowAt(f, l) = <<"bogus", "us", "us-ca">>
        /\ Len(RowOutput(f, l)) = 1

(***************************************************************************)
(* C8.  A reached row that is neither empty nor a comment, whose field     *)
(* count without one trailing empty field is outside 2..4, printed the     *)
(* column-count ERROR and nothing else and set the failure flag; one whose *)
(* count is within 2..4 printed no column-count ERROR.                     *)
(***************************************************************************)
Skipped(row) == IF row = <<>> THEN TRUE ELSE startswith(strip(row[1]), "#")

\* C8: for every row handed to the loop and not skipped, the column-count ERROR
\* is printed, alone, exactly when the field count is outside 2..4
C8_ColumnCount ==
    \A <<f, l>> \in Reached :
        LET row == RowAt(f, l) IN
        ~Skipped(row) =>
            IF FieldCount(row) \in 2..4
            THEN ~Has(f, l, "column_count")
            ELSE /\ RowOutput(f, l) = <<Line("ERROR", f, l, "column_count", "", FieldCount(row))>>
                 /\ validation_failed

C8_Witness ==
    /\ \E <<f, l>> \in Reached :
          /\ RowAt(f, l) = <<Valid, "US", "US-CA", "Tokyo", "", "">>
          /\ Has(f, l, "column_count")
    /\ \E <<f, l>> \in Reached : RowAt(f, l) = <<Valid, "US", "US-CA", "Tokyo", "">>

(***************************************************************************)
(* C9.  A row that got as far as the region check printed the region ERROR *)
(* exactly when field 3 exists, is not blank once trimmed and, trimmed,    *)
(* does not match ^[A-Z]{2}-[A-Za-z0-9]{1,3}$: never for a blank field 3,  *)
(* always for 'us-ca'.                                                     *)
(***************************************************************************)
ReachesRegionCheck(row) ==
    /\ Candidate(row)
    /\ Network(row).version = SUPERNET.version

\* C9: the region ERROR is printed exactly for a non-blank field 3 that does not
\* match the region pattern
C9_RegionError ==
    \A <<f, l>> \in Reached :
        LET row == Fields(RowAt(f, l)) IN
        ReachesRegionCheck(RowAt(f, l)) =>
            /\ Has(f, l, "region") <=>
                  (Len(row) >= 3 /\ ~Blank(row[3]) /\ ~REGION_CODE_REGEX(strip(row[3])))
            /\ (Len(row) >= 3 /\ Blank(row[3])) => ~Has(f, l, "region")
            /\ (Len(row) >= 3 /\ strip(row[3]) = "us-ca") => Has(f, l, "region")

C9_Witness ==
    /\ \E <<f, l>> \in Reached :
          RowAt(f, l) = <<Valid, "US", " ", "Tokyo">> /\ ~Has(f, l, "region")
    /\ \E <<f, l>> \in Reached :
          RowAt(f, l) = <<Valid, "US", " ", "Tokyo", "">> /\ ~Has(f, l, "region")

(***************************************************************************)
(* C10.  A row with a non-empty last field, and the same row followed by   *)
(* one empty field, print the same diagnostics and have the same effect on *)
(* the failure flag.  Only one trailing field is dropped, and only an      *)
(* empty string: a row ending in two empty fields, or in a blank field     *)
(* that is not empty, is counted with that field.                          *)
(***************************************************************************)
\* what a row printed, the FATAL line of a check that raised included,
\* without the path and the line number
Shape(line) == [level |-> line.level, msg |-> line.msg, arg |-> line.arg, n |-> line.n]

Diagnostics(f, l) ==
    LET lines == RowOutput(f, l)
                 \o (IF l = yielded[f] /\ Fatal(f, "TypeError") \in Printed
                     THEN <<Fatal(f, "TypeError")>> ELSE <<>>)
    IN [k \in 1..Len(lines) |-> Shape(lines[k])]

\* b is a with one empty field more, a ending in a field that is not empty
TrailingPair(a, b) == a /= <<>> /\ a[Len(a)] /= "" /\ b = Append(a, "")

Related(a, b) == TrailingPair(a, b) \/ TrailingPair(b, a)

SameDiagnostics ==
    \A <<f, l>> \in Reached : \A <<g, m>> \in Reached :
        TrailingPair(RowAt(f, l), RowAt(g, m)) => Diagnostics(f, l) = Diagnostics(g, m)

OnlyOneEmptyFieldDropped ==
    \A <<f, l>> \in Reached :
        LET row == RowAt(f, l)
            last == row[Len(row)]
            kept == IF Len(row) >= 2 /\ last = "" /\ row[Len(row) - 1] = "" THEN Len(row) - 1
                    ELSE IF last /= "" THEN Len(row) ELSE 0
        IN
        (~Skipped(row) /\ kept > 4) =>
            RowOutput(f, l) = <<Line("ERROR", f, l, "column_count", "", kept)>>

\* the step hands the loop a row related to a row it was handed before
HandsRelatedRow ==
    /\ HasRow
    /\ \E <<f, l>> \in Reached : Related(RowAt(f, l), NextRow)

\* the flag is clear after the first row of a pair, so it is after the second
SameFlagEffect == (HandsRelatedRow /\ ~validation_failed) => ~validation_failed'

\* C10: one trailing empty field changes neither the diagnostics of a row nor
\* its effect on the flag; nothing more than that one field is dropped
C10_TrailingDelimiter ==
    /\ [](SameDiagnostics /\ OnlyOneEmptyFieldDropped)
    /\ [][SameFlagEffect]_vars

C10_Witness ==
    \E <<f, l>> \in Reached : \E <<g, m>> \in Reached :
        /\ RowAt(f, l) = <<Outside, "us", "us-ca", "Tokyo">>
        /\ RowAt(g, m) = <<Outside, "us", "us-ca", "Tokyo", "">>
        /\ Len(Diagnostics(g, m)) = 3

====
